---- MODULE Spec2Model ----
(***************************************************************************)
(* Window groups of the walk GUI toolkit: the per-thread registry          *)
(* (windowGroupManager), the reference-counted WindowGroup with its        *)
(* tooltip and its synchronized-call queue.                                *)
(*                                                                         *)
(* Every goroutine is a thread of the model with a call stack of frames;   *)
(* one action is one step of one function of the source.  Fields that the  *)
(* source reads and writes without a lock (refs, ignored, removed,         *)
(* toolTip) are read and written in separate steps, so that the            *)
(* interleavings of unsynchronized callers are part of the model.  A       *)
(* Lock..Unlock section on g.syncMutex is one step, taken when the mutex   *)
(* is free, or two steps: the Lock, then the rest.                         *)
(***************************************************************************)
EXTENDS Integers, Sequences, FiniteSets, TLC

\* ------------------------------------------------------------------ bounds
NThreads == 2
MaxCalls == 3
MaxSeqCalls == 4
MaxSyncCalls == 4
MaxTid == 1
MaxDelta == 2
MaxBatchLen == 1
MaxPkgCalls == 3
MaxThreadCalls == 4
MaxRaceCalls == 5
MaxLiveCalls == 4
MaxDrainCalls == 4

Threads == 1..NThreads
ThreadIDs == 1..MaxTid
Deltas == (0 - MaxDelta)..MaxDelta
MaxOf(a, b) == IF a > b THEN a ELSE b
\* A call allocates at most one group and at most one tooltip.
GroupIds == 1..MaxOf(MaxOf(MaxOf(MaxCalls, MaxPkgCalls), MaxOf(MaxSeqCalls, MaxSyncCalls)),
                     MaxOf(MaxOf(MaxRaceCalls, MaxLiveCalls), MaxDrainCalls))

\* nil pointer / absent map entry
Nil == 0
\* no panic has happened
NoPanic == ""

VARIABLES
    mapNil,        \* m.groups == nil
    groups,        \* m.groups: thread identifier -> *WindowGroup (Nil: no entry)
    rlocked,       \* goroutines holding m.mutex for reading
    wlocked,       \* goroutine holding m.mutex for writing (Nil: none)
    nGroups,       \* WindowGroup instances allocated so far
    refs, ignored, threadID, completion, removed, toolTip,  \* WindowGroup fields
    nToolTips,     \* ToolTip handles allocated so far
    stack,         \* per goroutine: call stack, innermost frame first
    fatal,         \* message of the panic that stopped the process
    calls,         \* client calls started
    overlap,       \* some client call started while another was in progress
    last,          \* the client call that returned most recently
    disposeLog,    \* per group: one entry per run of dispose
    missed,        \* per group: a call brought liveness to zero and returned without dispose
    cgCount,       \* per thread identifier: CreateGroup calls returned
    cgRets,        \* per thread identifier: the groups CreateGroup returned
    held,          \* per group: references CreateGroup returned that no Done was called for yet
    released,      \* a client call other than CreateGroup/Group was made
    ttRets,        \* per group: the handles CreateToolTip returned
    ttLog,         \* per group: NewToolTip results and ToolTip.Dispose calls, in order
    Threaded,      \* var Threaded bool
    MsgLoopMutex,  \* var MsgLoopMutex sync.Mutex: TRUE when locked
    osThread,      \* per goroutine: runtime.LockOSThread calls not yet undone
    holds,         \* goroutines whose MsgLoopMutex.Lock returned and that have not unlocked since
    syncMutex,     \* per group: goroutine holding g.syncMutex (Nil: none)
    syncFuncs,     \* per group: functions queued to run on the group's thread
    layoutResults, \* per group: layout computations queued for application
    layoutStopwatch, \* per group: timing information of layoutResults
    funcs, results, stopwatch,  \* per goroutine: the locals of RunSynchronized
    nFuncs,        \* callbacks made so far
    nBatches,      \* layout batches made so far
    drains,        \* per group: swaps RunSynchronized has done
    enqLog,        \* per group: callbacks in the order Synchronize appended them
    ranLog,        \* per group: callbacks in the order RunSynchronized invoked them
    subLog,        \* per group: batches in the order SynchronizeLayout stored them
    appliedLog     \* per group: batches in the order applyLayoutResults got them

mgr == <<mapNil, groups, rlocked, wlocked>>
grp == <<nGroups, refs, ignored, threadID, completion, removed, toolTip, nToolTips>>
hist == <<disposeLog, missed, cgCount, cgRets, held, ttRets, ttLog>>
thr == <<Threaded, MsgLoopMutex, osThread, holds>>
client == <<calls, overlap, last, released>>
queue == <<syncMutex, syncFuncs, layoutResults, layoutStopwatch, funcs, results,
           stopwatch, nFuncs, nBatches, drains, enqLog, ranLog, subLog, appliedLog>>
vars == <<mgr, grp, stack, fatal, client, hist, queue, thr>>

\* ------------------------------------------------------------------ frames
\* pc: position; g: the group; x, y: argument and local; z: this Add or
\* ignore stored a zero liveness; p: what a client call saw when it started.
NoPre == [a |-> 0, b |-> 0, c |-> 0]
Frame(pc, g, x, y) == [pc |-> pc, g |-> g, x |-> x, y |-> y, z |-> FALSE, p |-> NoPre]
Top(t) == stack[t][1]
Rest(t) == Tail(stack[t])
At(t, label) == fatal = NoPanic /\ stack[t] # <<>> /\ Top(t).pc = label
Idle(t) == stack[t] = <<>>
AllIdle == \A t \in Threads : Idle(t)
Jump(t, f) == stack' = [stack EXCEPT ![t] = <<f>> \o Rest(t)]
Goto(t, label) == Jump(t, [Top(t) EXCEPT !.pc = label])
CallFrom(t, callee, cont) == stack' = [stack EXCEPT ![t] = <<callee, cont>> \o Rest(t)]
Return(t) == stack' = [stack EXCEPT ![t] = Rest(t)]

Pre(t) == stack[t][Len(stack[t])].p
NoCall == [op |-> "", arg |-> 0, val |-> 0, err |-> FALSE, a |-> 0, b |-> 0, c |-> 0]
Returned(t, op, arg, val, err) ==
    [op |-> op, arg |-> arg, val |-> val, err |-> err,
     a |-> Pre(t).a, b |-> Pre(t).b, c |-> Pre(t).c]

Liveness(g) == refs[g] - ignored[g]

\* A panic is a fatal stop: the process ends where it is.
Panic(t, msg) ==
    /\ fatal' = msg
    /\ UNCHANGED <<mgr, grp, stack, client, hist>>

Init ==
    /\ mapNil = TRUE
    /\ groups = [i \in ThreadIDs |-> Nil]
    /\ rlocked = {}
    /\ wlocked = Nil
    /\ nGroups = 0
    /\ refs = [g \in GroupIds |-> 0]
    /\ ignored = [g \in GroupIds |-> 0]
    /\ threadID = [g \in GroupIds |-> 0]
    /\ completion = [g \in GroupIds |-> ""]
    /\ removed = [g \in GroupIds |-> FALSE]
    /\ toolTip = [g \in GroupIds |-> Nil]
    /\ nToolTips = 0
    /\ stack = [t \in Threads |-> <<>>]
    /\ fatal = NoPanic
    /\ calls = 0
    /\ overlap = FALSE
    /\ last = NoCall
    /\ disposeLog = [g \in GroupIds |-> <<>>]
    /\ missed = [g \in GroupIds |-> FALSE]
    /\ cgCount = [i \in ThreadIDs |-> 0]
    /\ cgRets = [i \in ThreadIDs |-> {}]
    /\ held = [g \in GroupIds |-> 0]
    /\ released = FALSE
    /\ ttRets = [g \in GroupIds |-> <<>>]
    /\ ttLog = [g \in GroupIds |-> <<>>]
    /\ Threaded = FALSE
    /\ MsgLoopMutex = FALSE
    /\ osThread = [t \in Threads |-> 0]
    /\ holds = {}
    /\ syncMutex = [g \in GroupIds |-> Nil]
    /\ syncFuncs = [g \in GroupIds |-> <<>>]
    /\ layoutResults = [g \in GroupIds |-> <<>>]
    /\ layoutStopwatch = [g \in GroupIds |-> Nil]
    /\ funcs = [t \in Threads |-> <<>>]
    /\ results = [t \in Threads |-> <<>>]
    /\ stopwatch = [t \in Threads |-> Nil]
    /\ nFuncs = 0
    /\ nBatches = 0
    /\ drains = [g \in GroupIds |-> 0]
    /\ enqLog = [g \in GroupIds |-> <<>>]
    /\ ranLog = [g \in GroupIds |-> <<>>]
    /\ subLog = [g \in GroupIds |-> <<>>]
    /\ appliedLog = [g \in GroupIds |-> <<>>]

\* ------------------------------------------------------- client calls
\* A goroutine with no call in progress starts one.
\* Idle goroutines are all alike: the first of them makes the call.
Begin(t, m) ==
    /\ fatal = NoPanic
    /\ Idle(t)
    /\ \A u \in Threads : u < t => ~Idle(u)
    /\ calls < m.max
    /\ m.serial => AllIdle

Start(t, m, frame, p, rel) ==
    /\ Begin(t, m)
    /\ stack' = [stack EXCEPT ![t] = <<[frame EXCEPT !.p = p]>>]
    /\ calls' = calls + 1
    /\ overlap' = (overlap \/ \E u \in Threads : u # t /\ ~Idle(u))
    /\ last' = NoCall
    /\ released' = (released \/ rel)
    /\ UNCHANGED <<mgr, grp, fatal, hist>>
    /\ UNCHANGED thr

Allocated == 1..nGroups

\* The groups a client can have a pointer to: those newWindowGroup gave to
\* its caller, and those CreateGroup has put in the registry (the insert,
\* the Unlock and the return are one step).
Known ==
    {g \in Allocated : completion[g] = "stub" \/ g \in cgRets[threadID[g]]}

CallGroup(t, m, tid) ==
    /\ Start(t, m, Frame("g_rlock", Nil, tid, 0), NoPre, FALSE)
    /\ UNCHANGED queue

CallCreateGroup(t, m, tid) ==
    /\ Start(t, m, Frame("cg_rlock", Nil, tid, 0),
             [a |-> IF mapNil THEN Nil ELSE groups[tid], b |-> nGroups, c |-> 0], FALSE)
    /\ UNCHANGED queue

CallAdd(t, m, g, delta) ==
    /\ Start(t, m, Frame("add_check", g, delta, 0),
             [a |-> 0, b |-> Liveness(g), c |-> ignored[g]], TRUE)
    /\ UNCHANGED queue

\* Done decrements the group's reference counter by one.
CallDone(t, m, g) == CallAdd(t, m, g, 0 - 1)

CallCreateToolTip(t, m, g) ==
    /\ Start(t, m, Frame("ctt_check", g, 0, 0),
             [a |-> toolTip[g], b |-> Liveness(g), c |-> ignored[g]], TRUE)
    /\ UNCHANGED queue

\* Done called by a client that got the group from CreateGroup and has not
\* called Done for that reference yet.
CallRelease(t, m, g) ==
    /\ Begin(t, m)
    /\ held[g] > 0
    /\ stack' = [stack EXCEPT ![t] =
                    <<[Frame("add_check", g, 0 - 1, 0) EXCEPT
                          !.p = [a |-> 0, b |-> Liveness(g), c |-> ignored[g]]]>>]
    /\ calls' = calls + 1
    /\ overlap' = (overlap \/ \E u \in Threads : u # t /\ ~Idle(u))
    /\ last' = NoCall
    /\ released' = TRUE
    /\ held' = [held EXCEPT ![g] = @ - 1]
    /\ UNCHANGED <<mgr, grp, fatal, disposeLog, missed, cgCount, cgRets, ttRets, ttLog>>
    /\ UNCHANGED queue
    /\ UNCHANGED thr

\* ignore is called by code of the package only.
CallIgnore(t, m, g, delta) ==
    /\ Start(t, m, Frame("ign_check", g, delta, 0),
             [a |-> 0, b |-> Liveness(g), c |-> ignored[g]], TRUE)
    /\ UNCHANGED queue

\* newWindowGroup called directly with a completion function of the
\* caller's own: a group at zero references that no registry knows.
CallNewWindowGroup(t, m, tid) ==
    /\ Begin(t, m)
    /\ nGroups' = nGroups + 1
    /\ threadID' = [threadID EXCEPT ![nGroups + 1] = tid]
    /\ completion' = [completion EXCEPT ![nGroups + 1] = "stub"]
    /\ calls' = calls + 1
    /\ overlap' = (overlap \/ \E u \in Threads : u # t /\ ~Idle(u))
    /\ last' = [NoCall EXCEPT !.op = "newWindowGroup", !.arg = tid, !.val = nGroups + 1]
    /\ UNCHANGED <<mgr, refs, ignored, removed, toolTip, nToolTips, stack, fatal,
                   released, hist>>
    /\ UNCHANGED queue
    /\ UNCHANGED thr

\* ------------------------------------------------ windowGroupManager.Group
GRLock(t) ==
    /\ At(t, "g_rlock")
    /\ wlocked = Nil
    /\ rlocked' = rlocked \cup {t}
    /\ Goto(t, "g_read")
    /\ UNCHANGED <<mapNil, groups, wlocked, grp, fatal, client, hist>>
    /\ UNCHANGED queue
    /\ UNCHANGED thr

GRead(t) ==
    /\ At(t, "g_read")
    /\ rlocked' = rlocked \ {t}
    /\ last' = Returned(t, "Group", Top(t).x,
                        IF mapNil THEN Nil ELSE groups[Top(t).x], FALSE)
    /\ Return(t)
    /\ UNCHANGED <<mapNil, groups, wlocked, grp, fatal, calls, overlap,
                   released, hist>>
    /\ UNCHANGED queue
    /\ UNCHANGED thr

\* ------------------------------------------ windowGroupManager.CreateGroup
CgRLock(t) ==
    /\ At(t, "cg_rlock")
    /\ wlocked = Nil
    /\ rlocked' = rlocked \cup {t}
    /\ Goto(t, "cg_fast")
    /\ UNCHANGED <<mapNil, groups, wlocked, grp, fatal, client, hist>>
    /\ UNCHANGED queue
    /\ UNCHANGED thr

\* Mutant: the fast path keeps the read lock.
CgFastKeepsRLock(t) ==
    /\ At(t, "cg_fast")
    /\ LET tid == Top(t).x
           group == IF mapNil THEN Nil ELSE groups[tid]
       IN IF group # Nil
          THEN /\ CallFrom(t, Frame("add_check", group, 1, 0),
                              [Top(t) EXCEPT !.pc = "cg_ret", !.g = group])
               /\ UNCHANGED rlocked
          ELSE /\ Goto(t, "cg_lock")
               /\ rlocked' = rlocked \ {t}
    /\ UNCHANGED <<mapNil, groups, wlocked, grp, fatal, client, hist>>
    /\ UNCHANGED queue
    /\ UNCHANGED thr

\* Fast path: the group exists; the read lock is released before Add(1).
CgFast(t) ==
    /\ At(t, "cg_fast")
    /\ rlocked' = rlocked \ {t}
    /\ LET tid == Top(t).x
           group == IF mapNil THEN Nil ELSE groups[tid]
       IN IF group # Nil
          THEN CallFrom(t, Frame("add_check", group, 1, 0),
                           [Top(t) EXCEPT !.pc = "cg_ret", !.g = group])
          ELSE Goto(t, "cg_lock")
    /\ UNCHANGED <<mapNil, groups, wlocked, grp, fatal, client, hist>>
    /\ UNCHANGED queue
    /\ UNCHANGED thr

CgLock(t) ==
    /\ At(t, "cg_lock")
    /\ wlocked = Nil
    /\ rlocked = {}
    /\ wlocked' = t
    /\ Goto(t, "cg_slow")
    /\ UNCHANGED <<mapNil, groups, rlocked, grp, fatal, client, hist>>
    /\ UNCHANGED queue
    /\ UNCHANGED thr

\* Slow path: re-check under the write lock, else newWindowGroup and Add(1)
\* with the lock held.
CgSlow(t) ==
    /\ At(t, "cg_slow")
    /\ LET tid == Top(t).x
           group == IF mapNil THEN Nil ELSE groups[tid]
           new == nGroups + 1
       IN IF group # Nil
          THEN /\ wlocked' = Nil
               /\ CallFrom(t, Frame("add_check", group, 1, 0),
                              [Top(t) EXCEPT !.pc = "cg_ret", !.g = group])
               /\ UNCHANGED <<mapNil, nGroups, threadID, completion>>
          ELSE /\ mapNil' = FALSE
               /\ nGroups' = new
               /\ threadID' = [threadID EXCEPT ![new] = tid]
               /\ completion' = [completion EXCEPT ![new] = "removeGroup"]
               /\ CallFrom(t, Frame("add_check", new, 1, 0),
                              [Top(t) EXCEPT !.pc = "cg_insert", !.g = new])
               /\ UNCHANGED wlocked
    /\ UNCHANGED <<groups, rlocked, refs, ignored, removed, toolTip, nToolTips,
                   fatal, client, hist>>
    /\ UNCHANGED queue
    /\ UNCHANGED thr

CgReturn(t) ==
    /\ last' = Returned(t, "CreateGroup", Top(t).x, Top(t).g, FALSE)
    /\ cgCount' = [cgCount EXCEPT ![Top(t).x] = @ + 1]
    /\ cgRets' = [cgRets EXCEPT ![Top(t).x] = @ \cup {Top(t).g}]
    /\ held' = [held EXCEPT ![Top(t).g] = @ + 1]
    /\ Return(t)
    /\ UNCHANGED <<grp, fatal, calls, overlap, released, disposeLog, missed, ttRets, ttLog>>

CgInsert(t) ==
    /\ At(t, "cg_insert")
    /\ groups' = [groups EXCEPT ![Top(t).x] = Top(t).g]
    /\ wlocked' = Nil
    /\ CgReturn(t)
    /\ UNCHANGED <<mapNil, rlocked>>
    /\ UNCHANGED queue
    /\ UNCHANGED thr

CgRet(t) ==
    /\ At(t, "cg_ret")
    /\ CgReturn(t)
    /\ UNCHANGED mgr
    /\ UNCHANGED queue
    /\ UNCHANGED thr

\* ------------------------------------------ windowGroupManager.removeGroup
RmLock(t) ==
    /\ At(t, "rm_lock")
    /\ wlocked = Nil
    /\ rlocked = {}
    /\ wlocked' = t
    /\ Goto(t, "rm_delete")
    /\ UNCHANGED <<mapNil, groups, rlocked, grp, fatal, client, hist>>
    /\ UNCHANGED queue
    /\ UNCHANGED thr

\* Mutant: removeGroup that leaves the entry in the map.
RmDeleteKeeps(t) ==
    /\ At(t, "rm_delete")
    /\ wlocked' = Nil
    /\ Return(t)
    /\ UNCHANGED <<mapNil, groups, rlocked, grp, fatal, client, hist>>
    /\ UNCHANGED queue
    /\ UNCHANGED thr

\* delete(m.groups, threadID): no entry, or a nil map, is a no-op.
RmDelete(t) ==
    /\ At(t, "rm_delete")
    /\ groups' = [groups EXCEPT ![Top(t).x] = Nil]
    /\ wlocked' = Nil
    /\ Return(t)
    /\ UNCHANGED <<mapNil, rlocked, grp, fatal, client, hist>>
    /\ UNCHANGED queue
    /\ UNCHANGED thr

\* ---------------------------------------------------------- WindowGroup.Add
\* Mutant: Add without the removed test.
AddCheckUnguarded(t) ==
    /\ At(t, "add_check")
    /\ Goto(t, "add_load")
    /\ UNCHANGED <<mgr, grp, fatal, client, hist>>
    /\ UNCHANGED queue
    /\ UNCHANGED thr

AddCheck(t) ==
    /\ At(t, "add_check")
    /\ IF removed[Top(t).g]
       THEN Panic(t, "walk: add() called on a WindowGroup that has been removed from its manager")
       ELSE /\ Goto(t, "add_load")
            /\ UNCHANGED <<mgr, grp, fatal, client, hist>>
    /\ UNCHANGED queue
    /\ UNCHANGED thr

\* g.refs += delta is a load and a store; no lock is held.
AddLoad(t) ==
    /\ At(t, "add_load")
    /\ Jump(t, [Top(t) EXCEPT !.pc = "add_store", !.y = refs[Top(t).g]])
    /\ UNCHANGED <<mgr, grp, fatal, client, hist>>
    /\ UNCHANGED queue
    /\ UNCHANGED thr

AddStore(t) ==
    /\ At(t, "add_store")
    /\ LET g == Top(t).g
           v == Top(t).y + Top(t).x
       IN /\ refs' = [refs EXCEPT ![g] = v]
          /\ Jump(t, [Top(t) EXCEPT !.pc = "add_test", !.y = v,
                                    !.z = (v - ignored[g] = 0)])
    /\ UNCHANGED <<mgr, nGroups, ignored, threadID, completion, removed, toolTip,
                   nToolTips, fatal, client, hist>>
    /\ UNCHANGED queue
    /\ UNCHANGED thr

\* The zero-liveness exit of Add and of ignore: dispose, or return.
\* negative, zero: what the two tests of the counter found.
Settle(t, negative, zero, msg) ==
    LET g == Top(t).g
    IN IF negative
       THEN Panic(t, msg)
       ELSE IF zero
            THEN /\ disposeLog' = [disposeLog EXCEPT ![g] = Append(@, Top(t).z)]
                 /\ Goto(t, "disp_tt")
                 /\ UNCHANGED <<mgr, grp, fatal, client, missed, cgCount, cgRets, held, ttRets, ttLog>>
            ELSE /\ missed' = [missed EXCEPT ![g] = @ \/ Top(t).z]
                 /\ Return(t)
                 /\ UNCHANGED <<mgr, grp, fatal, client, disposeLog, cgCount, cgRets, held, ttRets, ttLog>>

\* Mutant: Add without the negative-counter panic.
AddTestNoPanic(t) ==
    /\ At(t, "add_test")
    /\ \E v2 \in {Top(t).y, refs[Top(t).g]} :
          Settle(t, FALSE, v2 - ignored[Top(t).g] = 0, "")
    /\ UNCHANGED queue
    /\ UNCHANGED thr

\* The tests after the store read g.refs again, or use the value just
\* stored: both are outcomes of the unsynchronized access.
AddTest(t) ==
    /\ At(t, "add_test")
    /\ \E v1, v2 \in {Top(t).y, refs[Top(t).g]} :
          Settle(t, v1 < 0, v2 - ignored[Top(t).g] = 0,
                 "walk: negative WindowGroup refs counter")
    /\ UNCHANGED queue
    /\ UNCHANGED thr

\* ------------------------------------------------------- WindowGroup.ignore
IgnCheck(t) ==
    /\ At(t, "ign_check")
    /\ IF removed[Top(t).g]
       THEN Panic(t, "walk: ignore() called on a WindowGroup that has been removed from its manager")
       ELSE /\ Goto(t, "ign_load")
            /\ UNCHANGED <<mgr, grp, fatal, client, hist>>
    /\ UNCHANGED queue
    /\ UNCHANGED thr

IgnLoad(t) ==
    /\ At(t, "ign_load")
    /\ Jump(t, [Top(t) EXCEPT !.pc = "ign_store", !.y = ignored[Top(t).g]])
    /\ UNCHANGED <<mgr, grp, fatal, client, hist>>
    /\ UNCHANGED queue
    /\ UNCHANGED thr

IgnStore(t) ==
    /\ At(t, "ign_store")
    /\ LET g == Top(t).g
           v == Top(t).y + Top(t).x
       IN /\ ignored' = [ignored EXCEPT ![g] = v]
          /\ Jump(t, [Top(t) EXCEPT !.pc = "ign_test", !.y = v,
                                    !.z = (refs[g] - v = 0)])
    /\ UNCHANGED <<mgr, nGroups, refs, threadID, completion, removed, toolTip,
                   nToolTips, fatal, client, hist>>
    /\ UNCHANGED queue
    /\ UNCHANGED thr

\* Mutant: ignore without the negative-counter panic.
IgnTestNoPanic(t) ==
    /\ At(t, "ign_test")
    /\ \E v2 \in {Top(t).y, ignored[Top(t).g]} :
          Settle(t, FALSE, refs[Top(t).g] - v2 = 0, "")
    /\ UNCHANGED queue
    /\ UNCHANGED thr

IgnTest(t) ==
    /\ At(t, "ign_test")
    /\ \E v1, v2 \in {Top(t).y, ignored[Top(t).g]} :
          Settle(t, v1 < 0, refs[Top(t).g] - v2 = 0,
                 "walk: negative WindowGroup ignored counter")
    /\ UNCHANGED queue
    /\ UNCHANGED thr

\* ------------------------------------------------------ WindowGroup.dispose
\* ToolTip.Dispose releases the reference the tooltip holds on its group.
ToolTipDispose(t, g, cont) ==
    /\ ttLog' = [ttLog EXCEPT ![g] = Append(@, [ev |-> "Dispose", tt |-> toolTip[g]])]
    /\ CallFrom(t, Frame("add_check", g, 0 - 1, 0), cont)

DispToolTip(t) ==
    /\ At(t, "disp_tt")
    /\ IF toolTip[Top(t).g] # Nil
       THEN ToolTipDispose(t, Top(t).g, [Top(t) EXCEPT !.pc = "disp_clear"])
       ELSE Goto(t, "disp_removed") /\ UNCHANGED ttLog
    /\ UNCHANGED <<mgr, grp, fatal, client, disposeLog, missed, cgCount, cgRets, held, ttRets>>
    /\ UNCHANGED queue
    /\ UNCHANGED thr

\* Mutant: dispose leaves g.toolTip as it is.
DispClearKeeps(t) ==
    /\ At(t, "disp_clear")
    /\ Goto(t, "disp_removed")
    /\ UNCHANGED <<mgr, grp, fatal, client, hist>>
    /\ UNCHANGED queue
    /\ UNCHANGED thr

DispClear(t) ==
    /\ At(t, "disp_clear")
    /\ toolTip' = [toolTip EXCEPT ![Top(t).g] = Nil]
    /\ Goto(t, "disp_removed")
    /\ UNCHANGED <<mgr, nGroups, refs, ignored, threadID, completion, removed,
                   nToolTips, fatal, client, hist>>
    /\ UNCHANGED queue
    /\ UNCHANGED thr

\* g.removed = true, then g.completion(g.threadID).
DispRemoved(t) ==
    /\ At(t, "disp_removed")
    /\ removed' = [removed EXCEPT ![Top(t).g] = TRUE]
    /\ IF completion[Top(t).g] = "removeGroup"
       THEN Jump(t, [Top(t) EXCEPT !.pc = "rm_lock", !.x = threadID[Top(t).g]])
       ELSE Return(t)
    /\ UNCHANGED <<mgr, nGroups, refs, ignored, threadID, completion, toolTip,
                   nToolTips, fatal, client, hist>>
    /\ UNCHANGED queue
    /\ UNCHANGED thr

\* ------------------------------------------------ WindowGroup.CreateToolTip
\* Mutant: CreateToolTip without the test for an existing tooltip.
CttCheckNoCache(t) ==
    /\ At(t, "ctt_check")
    /\ Goto(t, "ctt_new")
    /\ UNCHANGED <<mgr, grp, fatal, client, hist>>
    /\ UNCHANGED queue
    /\ UNCHANGED thr

CttCheck(t) ==
    /\ At(t, "ctt_check")
    /\ LET g == Top(t).g
       IN IF toolTip[g] # Nil
          THEN /\ last' = Returned(t, "CreateToolTip", g, toolTip[g], FALSE)
               /\ ttRets' = [ttRets EXCEPT ![g] = Append(@, toolTip[g])]
               /\ Return(t)
          ELSE /\ Goto(t, "ctt_new")
               /\ UNCHANGED <<last, ttRets>>
    /\ UNCHANGED <<mgr, grp, fatal, calls, overlap, released, disposeLog,
                   missed, cgCount, cgRets, held, ttLog>>
    /\ UNCHANGED queue
    /\ UNCHANGED thr

\* NewToolTip: fails, or returns a new handle whose InitWindow has added a
\* reference for itself to the group.
NewToolTip(t, g, ok) ==
    IF ok
    THEN /\ nToolTips' = nToolTips + 1
         /\ ttLog' = [ttLog EXCEPT ![g] = Append(@, [ev |-> "NewToolTip", tt |-> nToolTips + 1])]
         /\ CallFrom(t, Frame("add_check", g, 1, 0),
                        [Top(t) EXCEPT !.pc = "ctt_set", !.y = nToolTips + 1])
         /\ UNCHANGED last
    ELSE /\ last' = Returned(t, "CreateToolTip", g, Nil, TRUE)
         /\ ttLog' = [ttLog EXCEPT ![g] = Append(@, [ev |-> "NewToolTip", tt |-> Nil])]
         /\ Return(t)
         /\ UNCHANGED nToolTips

\* Mutant: a failed construction is cached and compensated like a
\* successful one, and the error is dropped.
CttNewKeepsFailed(t) ==
    /\ At(t, "ctt_new")
    /\ nToolTips' = nToolTips + 1
    /\ ttLog' = [ttLog EXCEPT ![Top(t).g] = Append(@, [ev |-> "NewToolTip", tt |-> Nil])]
    /\ Jump(t, [Top(t) EXCEPT !.pc = "ctt_set", !.y = nToolTips + 1])
    /\ UNCHANGED <<mgr, nGroups, refs, ignored, threadID, completion, removed,
                   toolTip, fatal, client, disposeLog, missed, cgCount, cgRets, held, ttRets>>
    /\ UNCHANGED queue
    /\ UNCHANGED thr

CttNew(t) ==
    /\ At(t, "ctt_new")
    /\ \E ok \in BOOLEAN : NewToolTip(t, Top(t).g, ok)
    /\ UNCHANGED <<mgr, nGroups, refs, ignored, threadID, completion, removed,
                   toolTip, fatal, calls, overlap, released, disposeLog, missed,
                   cgCount, cgRets, held, ttRets>>
    /\ UNCHANGED queue
    /\ UNCHANGED thr

\* Mutant: CreateToolTip without the compensating ignore(1).
CttSetNoIgnore(t) ==
    /\ At(t, "ctt_set")
    /\ toolTip' = [toolTip EXCEPT ![Top(t).g] = Top(t).y]
    /\ Goto(t, "ctt_ret")
    /\ UNCHANGED <<mgr, nGroups, refs, ignored, threadID, completion, removed,
                   nToolTips, fatal, client, hist>>
    /\ UNCHANGED queue
    /\ UNCHANGED thr

\* g.toolTip = tt, then g.ignore(1).
CttSet(t) ==
    /\ At(t, "ctt_set")
    /\ toolTip' = [toolTip EXCEPT ![Top(t).g] = Top(t).y]
    /\ CallFrom(t, Frame("ign_check", Top(t).g, 1, 0), [Top(t) EXCEPT !.pc = "ctt_ret"])
    /\ UNCHANGED <<mgr, nGroups, refs, ignored, threadID, completion, removed,
                   nToolTips, fatal, client, hist>>
    /\ UNCHANGED queue
    /\ UNCHANGED thr

CttRet(t) ==
    /\ At(t, "ctt_ret")
    /\ last' = Returned(t, "CreateToolTip", Top(t).g, Top(t).y, FALSE)
    /\ ttRets' = [ttRets EXCEPT ![Top(t).g] = Append(@, Top(t).y)]
    /\ Return(t)
    /\ UNCHANGED <<mgr, grp, fatal, calls, overlap, released, disposeLog,
                   missed, cgCount, cgRets, held, ttLog>>
    /\ UNCHANGED queue
    /\ UNCHANGED thr

\* ------------------------------------------------- WindowGroup.Synchronize
\* A callback: a function value with what its body does when invoked.
\*   "plain"  returns; "sync" calls Synchronize on its own group;
\*   "layout" calls SynchronizeLayout on its own group.
Kinds == {"plain", "sync", "layout"}
Callback(id, kind) == [id |-> id, kind |-> kind]

\* g.syncMutex.Lock() returns: a step of its own, for the interleavings in
\* which other goroutines act between Lock and the statements it guards.
\* z: this frame has locked g.syncMutex.
LockSections == {"sy_append", "sl_set", "rs_swap"}

QueueLock(t) ==
    /\ fatal = NoPanic
    /\ stack[t] # <<>>
    /\ Top(t).pc \in LockSections
    /\ ~Top(t).z
    /\ syncMutex[Top(t).g] = Nil
    /\ syncMutex' = [syncMutex EXCEPT ![Top(t).g] = t]
    /\ Jump(t, [Top(t) EXCEPT !.z = TRUE])
    /\ UNCHANGED <<mgr, grp, fatal, client, hist, syncFuncs, layoutResults,
                   layoutStopwatch, funcs, results, stopwatch, nFuncs, nBatches,
                   drains, enqLog, ranLog, subLog, appliedLog>>
    /\ UNCHANGED thr

\* The statements between Lock and Unlock run when this frame has the
\* mutex, or together with the Lock when the mutex is free.
MayEnter(t) == syncMutex[Top(t).g] = (IF Top(t).z THEN t ELSE Nil)

CallSynchronize(t, m, g, kind) ==
    /\ nFuncs' = nFuncs + 1
    /\ Start(t, m, Frame("sy_append", g, Callback(nFuncs + 1, kind), 0), NoPre, TRUE)
    /\ UNCHANGED <<syncMutex, syncFuncs, layoutResults, layoutStopwatch, funcs,
                   results, stopwatch, nBatches, drains, enqLog, ranLog, subLog,
                   appliedLog>>

\* Mutant: Synchronize stores f as the whole queue.
SyAppendOverwrites(t) ==
    /\ At(t, "sy_append")
    /\ MayEnter(t)
    /\ LET g == Top(t).g
       IN /\ syncFuncs' = [syncFuncs EXCEPT ![g] = <<Top(t).x>>]
          /\ enqLog' = [enqLog EXCEPT ![g] =
                          Append(@, [id |-> Top(t).x.id, at |-> drains[g],
                                     by |-> Top(t).y])]
          /\ syncMutex' = [syncMutex EXCEPT ![g] = Nil]
    /\ Return(t)
    /\ UNCHANGED <<mgr, grp, fatal, client, hist, layoutResults, layoutStopwatch,
                   funcs, results, stopwatch, nFuncs, nBatches, drains, ranLog,
                   subLog, appliedLog>>
    /\ UNCHANGED thr

\* Lock; g.syncFuncs = append(g.syncFuncs, f); the deferred Unlock: the
\* critical section is one step, taken when g.syncMutex is free.
SyAppend(t) ==
    /\ At(t, "sy_append")
    /\ MayEnter(t)
    /\ LET g == Top(t).g
       IN /\ syncFuncs' = [syncFuncs EXCEPT ![g] = Append(@, Top(t).x)]
          /\ enqLog' = [enqLog EXCEPT ![g] =
                          Append(@, [id |-> Top(t).x.id, at |-> drains[g],
                                     by |-> Top(t).y])]
          /\ syncMutex' = [syncMutex EXCEPT ![g] = Nil]
    /\ Return(t)
    /\ UNCHANGED <<mgr, grp, fatal, client, hist, layoutResults, layoutStopwatch,
                   funcs, results, stopwatch, nFuncs, nBatches, drains, ranLog,
                   subLog, appliedLog>>
    /\ UNCHANGED thr

\* ------------------------------------------- WindowGroup.SynchronizeLayout
\* A batch of n layout results, all carrying the batch's number; its
\* stopwatch carries the same number.
Batch(b, n) == [i \in 1..n |-> b]
BatchLens == 0..MaxBatchLen

CallSynchronizeLayout(t, m, g, n) ==
    /\ nBatches' = nBatches + 1
    /\ Start(t, m, Frame("sl_set", g, Batch(nBatches + 1, n), nBatches + 1),
             NoPre, TRUE)
    /\ UNCHANGED <<syncMutex, syncFuncs, layoutResults, layoutStopwatch, funcs,
                   results, stopwatch, nFuncs, drains, enqLog, ranLog, subLog,
                   appliedLog>>

\* Mutant: the new batch is appended to the pending one.
SlSetAppends(t) ==
    /\ At(t, "sl_set")
    /\ MayEnter(t)
    /\ LET g == Top(t).g
       IN /\ layoutResults' = [layoutResults EXCEPT ![g] = @ \o Top(t).x]
          /\ layoutStopwatch' = [layoutStopwatch EXCEPT ![g] = Top(t).y]
          /\ subLog' = [subLog EXCEPT ![g] =
                          Append(@, [results |-> Top(t).x, stopwatch |-> Top(t).y,
                                     at |-> drains[g]])]
          /\ syncMutex' = [syncMutex EXCEPT ![g] = Nil]
    /\ Return(t)
    /\ UNCHANGED <<mgr, grp, fatal, client, hist, syncFuncs, funcs, results,
                   stopwatch, nFuncs, nBatches, drains, enqLog, ranLog, appliedLog>>
    /\ UNCHANGED thr

SlSet(t) ==
    /\ At(t, "sl_set")
    /\ MayEnter(t)
    /\ LET g == Top(t).g
       IN /\ layoutResults' = [layoutResults EXCEPT ![g] = Top(t).x]
          /\ layoutStopwatch' = [layoutStopwatch EXCEPT ![g] = Top(t).y]
          /\ subLog' = [subLog EXCEPT ![g] =
                          Append(@, [results |-> Top(t).x, stopwatch |-> Top(t).y,
                                     at |-> drains[g]])]
          /\ syncMutex' = [syncMutex EXCEPT ![g] = Nil]
    /\ Return(t)
    /\ UNCHANGED <<mgr, grp, fatal, client, hist, syncFuncs, funcs, results,
                   stopwatch, nFuncs, nBatches, drains, enqLog, ranLog, appliedLog>>
    /\ UNCHANGED thr

\* --------------------------------------------- WindowGroup.RunSynchronized
\* RunSynchronized must be called by the group's thread: its calls on a
\* group do not overlap.
Draining(g) ==
    \E u \in Threads : \E i \in DOMAIN stack[u] :
        stack[u][i].g = g /\ stack[u][i].pc \in {"rs_swap", "rs_apply", "rs_loop"}

CallRunSynchronized(t, m, g) ==
    /\ ~Draining(g)
    /\ Start(t, m, Frame("rs_swap", g, 0, 0), NoPre, TRUE)
    /\ UNCHANGED queue

\* The group's thread runs its message loop: it calls RunSynchronized
\* again whenever something is queued.  Owner: the goroutine of that loop.
Owner == NThreads
Pending(g) == syncFuncs[g] # <<>> \/ layoutResults[g] # <<>>

OwnerRunSynchronized(g) ==
    /\ fatal = NoPanic
    /\ Idle(Owner)
    /\ ~Draining(g)
    /\ Pending(g)
    /\ stack' = [stack EXCEPT ![Owner] = <<Frame("rs_swap", g, 0, 0)>>]
    /\ overlap' = (overlap \/ \E u \in Threads : u # Owner /\ ~Idle(u))
    /\ last' = NoCall
    /\ released' = TRUE
    /\ UNCHANGED <<mgr, grp, fatal, calls, hist>>
    /\ UNCHANGED queue
    /\ UNCHANGED thr

\* Mutant: the swap leaves g.syncFuncs as it was.
RsSwapKeepsQueue(t) ==
    /\ At(t, "rs_swap")
    /\ MayEnter(t)
    /\ LET g == Top(t).g
       IN /\ funcs' = [funcs EXCEPT ![t] = syncFuncs[g]]
          /\ results' = [results EXCEPT ![t] = layoutResults[g]]
          /\ stopwatch' = [stopwatch EXCEPT ![t] = layoutStopwatch[g]]
          /\ layoutResults' = [layoutResults EXCEPT ![g] = <<>>]
          /\ layoutStopwatch' = [layoutStopwatch EXCEPT ![g] = Nil]
          /\ syncMutex' = [syncMutex EXCEPT ![g] = Nil]
          /\ drains' = [drains EXCEPT ![g] = @ + 1]
          /\ Jump(t, [Top(t) EXCEPT !.pc = "rs_apply", !.y = drains[g] + 1,
                                    !.z = FALSE])
    /\ UNCHANGED <<mgr, grp, fatal, client, hist, syncFuncs, nFuncs, nBatches,
                   enqLog, ranLog, subLog, appliedLog>>
    /\ UNCHANGED thr

\* Mutant: the swap does not release g.syncMutex.
RsSwapHoldsLock(t) ==
    /\ At(t, "rs_swap")
    /\ MayEnter(t)
    /\ LET g == Top(t).g
       IN /\ funcs' = [funcs EXCEPT ![t] = syncFuncs[g]]
          /\ results' = [results EXCEPT ![t] = layoutResults[g]]
          /\ stopwatch' = [stopwatch EXCEPT ![t] = layoutStopwatch[g]]
          /\ syncFuncs' = [syncFuncs EXCEPT ![g] = <<>>]
          /\ layoutResults' = [layoutResults EXCEPT ![g] = <<>>]
          /\ layoutStopwatch' = [layoutStopwatch EXCEPT ![g] = Nil]
          /\ syncMutex' = [syncMutex EXCEPT ![g] = t]
          /\ drains' = [drains EXCEPT ![g] = @ + 1]
          /\ Jump(t, [Top(t) EXCEPT !.pc = "rs_apply", !.y = drains[g] + 1,
                                    !.z = FALSE])
    /\ UNCHANGED <<mgr, grp, fatal, client, hist, nFuncs, nBatches,
                   enqLog, ranLog, subLog, appliedLog>>
    /\ UNCHANGED thr

\* Lock; the swap: the queue and the batch go to locals, the fields to
\* nil; Unlock.  One step, taken when g.syncMutex is free.  y: the number
\* of this drain.
RsSwap(t) ==
    /\ At(t, "rs_swap")
    /\ MayEnter(t)
    /\ LET g == Top(t).g
       IN /\ funcs' = [funcs EXCEPT ![t] = syncFuncs[g]]
          /\ results' = [results EXCEPT ![t] = layoutResults[g]]
          /\ stopwatch' = [stopwatch EXCEPT ![t] = layoutStopwatch[g]]
          /\ syncFuncs' = [syncFuncs EXCEPT ![g] = <<>>]
          /\ layoutResults' = [layoutResults EXCEPT ![g] = <<>>]
          /\ layoutStopwatch' = [layoutStopwatch EXCEPT ![g] = Nil]
          /\ syncMutex' = [syncMutex EXCEPT ![g] = Nil]
          /\ drains' = [drains EXCEPT ![g] = @ + 1]
          /\ Jump(t, [Top(t) EXCEPT !.pc = "rs_apply", !.y = drains[g] + 1,
                                    !.z = FALSE])
    /\ UNCHANGED <<mgr, grp, fatal, client, hist, nFuncs, nBatches, enqLog, ranLog,
                   subLog, appliedLog>>
    /\ UNCHANGED thr

\* Mutant: applyLayoutResults is called with an empty batch, too.
RsApplyAlways(t) ==
    /\ At(t, "rs_apply")
    /\ appliedLog' = [appliedLog EXCEPT ![Top(t).g] =
                        Append(@, [results |-> results[t],
                                   stopwatch |-> stopwatch[t],
                                   drain |-> Top(t).y,
                                   before |-> Len(ranLog[Top(t).g])])]
    /\ Goto(t, "rs_loop")
    /\ UNCHANGED <<mgr, grp, fatal, client, hist, syncMutex, syncFuncs,
                   layoutResults, layoutStopwatch, funcs, results, stopwatch,
                   nFuncs, nBatches, drains, enqLog, ranLog, subLog>>
    /\ UNCHANGED thr

\* if len(results) > 0 { applyLayoutResults(results, stopwatch) }
RsApply(t) ==
    /\ At(t, "rs_apply")
    /\ appliedLog' = [appliedLog EXCEPT ![Top(t).g] =
                        IF Len(results[t]) > 0
                        THEN Append(@, [results |-> results[t],
                                        stopwatch |-> stopwatch[t],
                                        drain |-> Top(t).y,
                                        before |-> Len(ranLog[Top(t).g])])
                        ELSE @]
    /\ Goto(t, "rs_loop")
    /\ UNCHANGED <<mgr, grp, fatal, client, hist, syncMutex, syncFuncs,
                   layoutResults, layoutStopwatch, funcs, results, stopwatch,
                   nFuncs, nBatches, drains, enqLog, ranLog, subLog>>
    /\ UNCHANGED thr

\* Mutant: the queue is cleared when the loop is over, too.
RsFinishClears(t) ==
    /\ last' = Returned(t, "RunSynchronized", Top(t).g, Top(t).y, FALSE)
    /\ Return(t)
    /\ results' = [results EXCEPT ![t] = <<>>]
    /\ stopwatch' = [stopwatch EXCEPT ![t] = Nil]
    /\ syncFuncs' = [syncFuncs EXCEPT ![Top(t).g] = <<>>]
    /\ UNCHANGED <<funcs, nFuncs, nBatches, ranLog>>

\* The range loop is over: RunSynchronized returns; the queue is untouched.
RsFinish(t) ==
    /\ last' = Returned(t, "RunSynchronized", Top(t).g, Top(t).y, FALSE)
    /\ Return(t)
    /\ results' = [results EXCEPT ![t] = <<>>]
    /\ stopwatch' = [stopwatch EXCEPT ![t] = Nil]
    /\ UNCHANGED <<syncFuncs, funcs, nFuncs, nBatches, ranLog>>

\* for _, f := range funcs { f() }: one iteration, or the return.
RsLoop(t) ==
    /\ At(t, "rs_loop")
    /\ LET g == Top(t).g
       IN IF funcs[t] = <<>>
          THEN RsFinish(t)
          ELSE LET f == Head(funcs[t])
               IN /\ funcs' = [funcs EXCEPT ![t] = Tail(@)]
                  /\ UNCHANGED <<syncFuncs, results, stopwatch>>
                  /\ ranLog' = [ranLog EXCEPT ![g] =
                                  Append(@, [id |-> f.id, drain |-> Top(t).y])]
                  /\ IF f.kind = "sync"
                     THEN /\ nFuncs' = nFuncs + 1
                          /\ CallFrom(t, Frame("sy_append", g,
                                               Callback(nFuncs + 1, "plain"), f.id),
                                         Top(t))
                          /\ UNCHANGED nBatches
                     ELSE IF f.kind = "layout"
                     THEN /\ nBatches' = nBatches + 1
                          /\ CallFrom(t, Frame("sl_set", g, Batch(nBatches + 1, 1),
                                               nBatches + 1),
                                         Top(t))
                          /\ UNCHANGED nFuncs
                     ELSE UNCHANGED <<stack, nFuncs, nBatches>>
                  /\ UNCHANGED last
    /\ UNCHANGED <<mgr, grp, fatal, calls, overlap, released, hist, syncMutex,
                   layoutResults, layoutStopwatch, drains, enqLog, subLog, appliedLog>>
    /\ UNCHANGED thr

\* ============================================== thread helpers (part_001)
OnlyThreaded == "call me only in threaded mode"
UnlockOfUnlocked == "sync: unlock of unlocked mutex"
BlockPanic == "panic in the block of RunUnlocked"

\* What the block handed to RunUnlocked does.
Blocks == {"returns", "panics"}

\* The program sets Threaded before it uses the helpers.
SetThreaded ==
    /\ fatal = NoPanic
    /\ calls = 0
    /\ AllIdle
    /\ ~Threaded
    /\ Threaded' = TRUE
    /\ UNCHANGED <<mgr, grp, stack, fatal, client, hist, queue, MsgLoopMutex,
                   osThread, holds>>

\* A goroutine with no call in progress calls a helper.  A goroutine is
\* known by what it holds, so any idle one may call.
StartHelper(t, frame) ==
    /\ fatal = NoPanic
    /\ Idle(t)
    /\ calls < MaxThreadCalls
    /\ stack' = [stack EXCEPT ![t] = <<frame>>]
    /\ calls' = calls + 1
    /\ overlap' = (overlap \/ \E u \in Threads : u # t /\ ~Idle(u))
    /\ UNCHANGED <<mgr, grp, fatal, last, released, hist, queue, thr>>

HelperReturned(t, op) == [NoCall EXCEPT !.op = op, !.arg = t]

\* In threaded mode the callers keep to the protocol: EnterThread once,
\* Unlock only what they locked, no Lock while they hold the mutex.
CallEnterThread(t) ==
    /\ osThread[t] = 0
    /\ t \notin holds
    /\ StartHelper(t, Frame("et_check", Nil, 0, 0))

CallLeaveThread(t) ==
    /\ Threaded => (osThread[t] > 0 /\ t \in holds)
    /\ StartHelper(t, Frame("lv_check", Nil, 0, 0))

CallLockThread(t) ==
    /\ Threaded => t \notin holds
    /\ StartHelper(t, Frame("lt_lock", Nil, 0, 0))

CallUnlockThread(t) ==
    /\ Threaded => t \in holds
    /\ StartHelper(t, Frame("ut_unlock", Nil, 0, 0))

CallRunUnlocked(t, block) ==
    /\ Threaded => t \in holds
    /\ StartHelper(t, Frame("ru_unlock", Nil, block, 0))

\* EnterThread: the panic, or runtime.LockOSThread and the call of LockThread.
EtCheck(t) ==
    /\ At(t, "et_check")
    /\ IF ~Threaded
       THEN /\ fatal' = OnlyThreaded
            /\ UNCHANGED <<stack, osThread>>
       ELSE /\ osThread' = [osThread EXCEPT ![t] = @ + 1]
            /\ CallFrom(t, Frame("lt_lock", Nil, 0, 0), [Top(t) EXCEPT !.pc = "et_ret"])
            /\ UNCHANGED fatal
    /\ UNCHANGED <<mgr, grp, client, hist, queue, Threaded, MsgLoopMutex, holds>>

EtRet(t) ==
    /\ At(t, "et_ret")
    /\ last' = HelperReturned(t, "EnterThread")
    /\ Return(t)
    /\ UNCHANGED <<mgr, grp, fatal, calls, overlap, released, hist, queue, thr>>

\* Mutant: LockThread locks the mutex in either mode.
LtLockAlways(t) ==
    /\ At(t, "lt_lock")
    /\ ~MsgLoopMutex
    /\ MsgLoopMutex' = TRUE
    /\ holds' = holds \cup {t}
    /\ last' = IF Len(stack[t]) = 1 THEN HelperReturned(t, "LockThread") ELSE last
    /\ Return(t)
    /\ UNCHANGED <<mgr, grp, fatal, calls, overlap, released, hist, queue, Threaded,
                   osThread>>

\* Mutant: LockThread takes the mutex without waiting for it.
LtLockNoWait(t) ==
    /\ At(t, "lt_lock")
    /\ IF Threaded
       THEN /\ MsgLoopMutex' = TRUE
            /\ holds' = holds \cup {t}
       ELSE UNCHANGED <<MsgLoopMutex, holds>>
    /\ last' = IF Len(stack[t]) = 1 THEN HelperReturned(t, "LockThread") ELSE last
    /\ Return(t)
    /\ UNCHANGED <<mgr, grp, fatal, calls, overlap, released, hist, queue, Threaded,
                   osThread>>

\* LockThread: if Threaded { MsgLoopMutex.Lock() }; Lock waits for the mutex.
LtLock(t) ==
    /\ At(t, "lt_lock")
    /\ IF Threaded
       THEN /\ ~MsgLoopMutex
            /\ MsgLoopMutex' = TRUE
            /\ holds' = holds \cup {t}
       ELSE UNCHANGED <<MsgLoopMutex, holds>>
    /\ last' = IF Len(stack[t]) = 1 THEN HelperReturned(t, "LockThread") ELSE last
    /\ Return(t)
    /\ UNCHANGED <<mgr, grp, fatal, calls, overlap, released, hist, queue, Threaded,
                   osThread>>

\* UnlockThread: if Threaded { MsgLoopMutex.Unlock() }; Unlock of a mutex
\* that is not locked is a fatal error of the runtime.
UtUnlock(t) ==
    /\ At(t, "ut_unlock")
    /\ IF Threaded /\ ~MsgLoopMutex
       THEN /\ fatal' = UnlockOfUnlocked
            /\ UNCHANGED <<stack, last, MsgLoopMutex, holds>>
       ELSE /\ MsgLoopMutex' = IF Threaded THEN FALSE ELSE MsgLoopMutex
            /\ holds' = IF Threaded THEN holds \ {t} ELSE holds
            /\ last' = IF Len(stack[t]) = 1 THEN HelperReturned(t, "UnlockThread") ELSE last
            /\ Return(t)
            /\ UNCHANGED fatal
    /\ UNCHANGED <<mgr, grp, calls, overlap, released, hist, queue, Threaded, osThread>>

\* LeaveThread: the panic, or the call of UnlockThread.
LvCheck(t) ==
    /\ At(t, "lv_check")
    /\ IF ~Threaded
       THEN /\ fatal' = OnlyThreaded
            /\ UNCHANGED stack
       ELSE /\ CallFrom(t, Frame("ut_unlock", Nil, 0, 0), [Top(t) EXCEPT !.pc = "lv_unpin"])
            /\ UNCHANGED fatal
    /\ UNCHANGED <<mgr, grp, client, hist, queue, thr>>

\* runtime.UnlockOSThread()
LvUnpin(t) ==
    /\ At(t, "lv_unpin")
    /\ osThread' = [osThread EXCEPT ![t] = IF @ > 0 THEN @ - 1 ELSE 0]
    /\ last' = HelperReturned(t, "LeaveThread")
    /\ Return(t)
    /\ UNCHANGED <<mgr, grp, fatal, calls, overlap, released, hist, queue, Threaded,
                   MsgLoopMutex, holds>>

\* RunUnlocked: UnlockThread()
RuUnlock(t) ==
    /\ At(t, "ru_unlock")
    /\ CallFrom(t, Frame("ut_unlock", Nil, 0, 0), [Top(t) EXCEPT !.pc = "ru_f"])
    /\ UNCHANGED <<mgr, grp, fatal, client, hist, queue, thr>>

\* Mutant: LockThread is called after f() instead of deferred, so a panic
\* of f leaves RunUnlocked without it.
RuBlockNoDefer(t) ==
    /\ At(t, "ru_f")
    /\ IF Top(t).x = "panics"
       THEN Jump(t, [Top(t) EXCEPT !.pc = "ru_ret", !.y = 1])
       ELSE Jump(t, [Top(t) EXCEPT !.pc = "ru_defer", !.y = 0])
    /\ UNCHANGED <<mgr, grp, fatal, client, hist, queue, thr>>

\* f(): the block returns or panics; y = 1: the goroutine is panicking.
\* Either way the deferred call runs next.
RuBlock(t) ==
    /\ At(t, "ru_f")
    /\ Jump(t, [Top(t) EXCEPT !.pc = "ru_defer",
                              !.y = IF Top(t).x = "panics" THEN 1 ELSE 0])
    /\ UNCHANGED <<mgr, grp, fatal, client, hist, queue, thr>>

\* defer LockThread()
RuDefer(t) ==
    /\ At(t, "ru_defer")
    /\ CallFrom(t, Frame("lt_lock", Nil, 0, 0), [Top(t) EXCEPT !.pc = "ru_ret"])
    /\ UNCHANGED <<mgr, grp, fatal, client, hist, queue, thr>>

\* RunUnlocked returns, or the panic of f goes on to the caller, who does
\* not recover.
RuRet(t) ==
    /\ At(t, "ru_ret")
    /\ IF Top(t).y = 1
       THEN /\ fatal' = BlockPanic
            /\ UNCHANGED <<stack, last>>
       ELSE /\ last' = HelperReturned(t, "RunUnlocked")
            /\ Return(t)
            /\ UNCHANGED fatal
    /\ UNCHANGED <<mgr, grp, calls, overlap, released, hist, queue, thr>>

\* ------------------------------------------------------------ specification
Step(t) ==
    \/ GRLock(t) \/ GRead(t)
    \/ CgRLock(t) \/ CgFast(t) \/ CgLock(t) \/ CgSlow(t) \/ CgInsert(t) \/ CgRet(t)
    \/ RmLock(t) \/ RmDelete(t)
    \/ AddCheck(t) \/ AddLoad(t) \/ AddStore(t) \/ AddTest(t)
    \/ IgnCheck(t) \/ IgnLoad(t) \/ IgnStore(t) \/ IgnTest(t)
    \/ DispToolTip(t) \/ DispClear(t) \/ DispRemoved(t)
    \/ CttCheck(t) \/ CttNew(t) \/ CttSet(t) \/ CttRet(t)

\* Goroutines call and run concurrently, or one call runs at a time.
Concurrent == [max |-> MaxCalls, serial |-> FALSE]
Serial == [max |-> MaxSeqCalls, serial |-> TRUE]

Call(t, m) ==
    \/ \E tid \in ThreadIDs : CallGroup(t, m, tid)
    \/ \E tid \in ThreadIDs : CallCreateGroup(t, m, tid)
    \/ \E tid \in ThreadIDs : CallNewWindowGroup(t, m, tid)
    \/ \E g \in Known, delta \in Deltas : CallAdd(t, m, g, delta)
    \/ \E g \in Known : CallDone(t, m, g)
    \/ \E g \in Known : CallCreateToolTip(t, m, g)

Next == \E t \in Threads : Call(t, Concurrent) \/ Step(t)

Spec == Init /\ [][Next]_vars

NextSeq == \E t \in Threads : Call(t, Serial) \/ Step(t)

SpecSeq == Init /\ [][NextSeq]_vars

\* Callers inside the package, one call at a time: ignore is called with
\* any delta.
Internal == [max |-> MaxPkgCalls, serial |-> TRUE]

NextPkg ==
    \E t \in Threads :
        \/ Call(t, Internal)
        \/ \E g \in Known, delta \in Deltas : CallIgnore(t, Internal, g, delta)
        \/ Step(t)

SpecPkg == Init /\ [][NextPkg]_vars

\* The thread helpers, called by goroutines that keep to the protocol.
NextThread ==
    \/ SetThreaded
    \/ \E t \in Threads :
          \/ CallEnterThread(t) \/ CallLeaveThread(t)
          \/ CallLockThread(t) \/ CallUnlockThread(t)
          \/ \E block \in Blocks : CallRunUnlocked(t, block)
          \/ EtCheck(t) \/ EtRet(t) \/ LtLock(t) \/ UtUnlock(t)
          \/ LvCheck(t) \/ LvUnpin(t)
          \/ RuUnlock(t) \/ RuBlock(t) \/ RuDefer(t) \/ RuRet(t)

SpecThread == Init /\ [][NextThread]_vars

\* The synchronized-call queue: the group's thread drains while any
\* goroutine submits.
Queued == [max |-> MaxSyncCalls, serial |-> FALSE]

NextSync ==
    \E t \in Threads :
        \/ \E tid \in ThreadIDs : CallNewWindowGroup(t, Queued, tid)
        \/ \E g \in Known, kind \in Kinds : CallSynchronize(t, Queued, g, kind)
        \/ \E g \in Known, n \in BatchLens :
              CallSynchronizeLayout(t, Queued, g, n)
        \/ \E g \in Known : CallRunSynchronized(t, Queued, g)
        \/ SyAppend(t) \/ SlSet(t)
        \/ RsSwap(t) \/ RsApply(t) \/ RsLoop(t)

SpecSync == Init /\ [][NextSync]_vars

\* Clients that keep to the CreateGroup/Done pattern, from any goroutine:
\* every Done releases a reference that a CreateGroup call returned.
Race == [max |-> MaxRaceCalls, serial |-> FALSE]

NextRace ==
    \E t \in Threads :
        \/ \E tid \in ThreadIDs : CallCreateGroup(t, Race, tid)
        \/ \E g \in Known : CallRelease(t, Race, g)
        \/ CgRLock(t) \/ CgFast(t) \/ CgLock(t) \/ CgSlow(t) \/ CgInsert(t) \/ CgRet(t)
        \/ RmLock(t) \/ RmDelete(t)
        \/ AddCheck(t) \/ AddLoad(t) \/ AddStore(t) \/ AddTest(t)
        \/ DispToolTip(t) \/ DispRemoved(t)

SpecRace == Init /\ [][NextRace]_vars

\* Every operation of the manager and of the groups, from any goroutine,
\* each goroutine scheduled again and again.
Live == [max |-> MaxLiveCalls, serial |-> FALSE]

StepLive(t) ==
    \/ GRLock(t) \/ GRead(t)
    \/ CgRLock(t) \/ CgFast(t) \/ CgLock(t) \/ CgSlow(t) \/ CgInsert(t) \/ CgRet(t)
    \/ RmLock(t) \/ RmDelete(t)
    \/ AddCheck(t) \/ AddLoad(t) \/ AddStore(t) \/ AddTest(t)
    \/ DispToolTip(t) \/ DispRemoved(t)
    \/ QueueLock(t) \/ SyAppend(t) \/ SlSet(t)
    \/ RsSwap(t) \/ RsApply(t) \/ RsLoop(t)

NextLive ==
    \E t \in Threads :
        \/ \E tid \in ThreadIDs : CallGroup(t, Live, tid)
        \/ \E tid \in ThreadIDs : CallCreateGroup(t, Live, tid)
        \/ \E g \in Known, delta \in Deltas : CallAdd(t, Live, g, delta)
        \/ \E g \in Known : CallDone(t, Live, g)
        \/ \E g \in Known, kind \in Kinds : CallSynchronize(t, Live, g, kind)
        \/ \E g \in Known, n \in BatchLens : CallSynchronizeLayout(t, Live, g, n)
        \/ \E g \in Known : CallRunSynchronized(t, Live, g)
        \/ StepLive(t)

SpecLive ==
    Init /\ [][NextLive]_vars /\ \A t \in Threads : WF_vars(StepLive(t))

\* Goroutines submit callbacks while the group's thread keeps draining.
Drain == [max |-> MaxDrainCalls, serial |-> FALSE]
Submitted == {"plain", "sync"}

StepDrain(t) ==
    \/ QueueLock(t) \/ SyAppend(t)
    \/ RsSwap(t) \/ RsApply(t) \/ RsLoop(t)

NextDrain ==
    \/ \E g \in Known : OwnerRunSynchronized(g)
    \/ \E t \in Threads :
          \/ \E tid \in ThreadIDs : CallNewWindowGroup(t, Drain, tid)
          \/ \E g \in Known, kind \in Submitted : CallSynchronize(t, Drain, g, kind)
          \/ StepDrain(t)

SpecDrain ==
    /\ Init
    /\ [][NextDrain]_vars
    /\ \A t \in Threads : WF_vars(StepDrain(t))
    /\ WF_vars(\E g \in Known : OwnerRunSynchronized(g))

\* ================================================================== claims
NegativeRefs == "walk: negative WindowGroup refs counter"
ManagerGroups(tid) ==
    {g \in Allocated : threadID[g] = tid /\ completion[g] = "removeGroup"}

\* C1: N concurrent CreateGroup calls for one thread identifier, no other
\* call made: once all have returned, they returned one and the same
\* group, the registry holds it, and its refs equals N.
C1_ConcurrentCreateGroup ==
    (AllIdle /\ fatal = NoPanic /\ ~released) =>
        \A tid \in ThreadIDs :
            cgCount[tid] > 0 =>
                /\ Cardinality(cgRets[tid]) = 1
                /\ groups[tid] \in cgRets[tid]
                /\ refs[groups[tid]] = cgCount[tid]

\* C2: whenever no call is in progress and no panic has happened, a group
\* made by the manager is in the registry if and only if it is not removed
\* and refs - ignored > 0.
C2_RegisteredIffLive ==
    (AllIdle /\ fatal = NoPanic) =>
        \A g \in Allocated :
            completion[g] = "removeGroup" =>
                ((groups[threadID[g]] = g) <=> (~removed[g] /\ Liveness(g) > 0))

DisposedOnceInZeroingCall(g) ==
    /\ Len(disposeLog[g]) <= 1
    /\ \A i \in DOMAIN disposeLog[g] : disposeLog[g][i]
    /\ ~missed[g]

\* C3 as claimed: in every interleaving of calls by several goroutines,
\* dispose runs at most once per group, in the call whose store brought
\* refs - ignored to zero, and no such call returns without it.
C3_DisposeOnceAnyInterleaving ==
    \A g \in Allocated : DisposedOnceInZeroingCall(g)

\* C3 as amended: the same, for calls that do not overlap in time.
C3_DisposeOnceSerialized ==
    ~overlap => \A g \in Allocated : DisposedOnceInZeroingCall(g)

C3_Witness ==
    /\ ~overlap
    /\ AllIdle
    /\ fatal = NoPanic
    /\ \E g \in Allocated : Len(disposeLog[g]) = 1 /\ removed[g] /\ ignored[g] = 1

\* C4 as claimed: with one call at a time on groups that ignore nothing,
\* refs - ignored is negative in no state.
C4_LivenessNeverNegative ==
    \A g \in Allocated : ignored[g] = 0 => Liveness(g) >= 0

\* C4 as amended: with one call at a time on groups that ignore nothing,
\* refs - ignored is negative only inside the Add that stored a negative
\* refs and ends in the panic; dispose runs at most once, in the call that
\* brought liveness to zero, and a group is removed exactly when it ran.
C4_LivenessNegativeOnlyInPanic ==
    \A g \in Allocated :
        ignored[g] = 0 =>
            /\ Liveness(g) < 0 =>
                  \/ fatal = NegativeRefs
                  \/ \E t \in Threads :
                        At(t, "add_test") /\ Top(t).g = g /\ Top(t).y < 0
            /\ DisposedOnceInZeroingCall(g)
            /\ (AllIdle /\ fatal = NoPanic) =>
                  /\ removed[g] <=> Len(disposeLog[g]) = 1
                  /\ removed[g] => Liveness(g) = 0

C4_Witness ==
    /\ AllIdle
    /\ fatal = NoPanic
    /\ calls >= 4
    /\ \E g \in Allocated :
          /\ completion[g] = "stub"
          /\ ignored[g] = 0
          /\ Len(disposeLog[g]) = 1
          /\ removed[g]
          /\ \A h \in Allocated : h = g

\* C5: with one call at a time, the registry never holds a disposed group,
\* so Group finds none after the disposal; and a CreateGroup that found no
\* entry returns a new instance, registered, with refs = 1 and not removed.
C5_DisposedGroupReplaced ==
    /\ (AllIdle /\ fatal = NoPanic) =>
          \A tid \in ThreadIDs :
              groups[tid] # Nil =>
                  ~removed[groups[tid]] /\ disposeLog[groups[tid]] = <<>>
    /\ last.op = "Group" =>
          /\ last.val = groups[last.arg]
          /\ (\A g \in ManagerGroups(last.arg) : removed[g]) => last.val = Nil
    /\ (last.op = "CreateGroup" /\ last.a = Nil) =>
          /\ last.val > last.b
          /\ \A g \in 1..last.b : last.val # g
          /\ disposeLog[last.val] = <<>>
          /\ groups[last.arg] = last.val
          /\ refs[last.val] = 1
          /\ ~removed[last.val]

C5_Witness ==
    /\ last.op = "CreateGroup"
    /\ last.a = Nil
    /\ \E g \in ManagerGroups(last.arg) :
          g < last.val /\ removed[g] /\ disposeLog[g] # <<>>

Ids(q) == {q[i].id : i \in DOMAIN q}
Swapped(g) ==
    UNION {Ids(funcs[u]) : u \in {v \in Threads : \E i \in DOMAIN stack[v] :
                                       stack[v][i].g = g /\ stack[v][i].pc \in {"rs_apply", "rs_loop"}}}
AppendedBefore(g, d) == {i \in DOMAIN enqLog[g] : enqLog[g][i].at < d}

\* C6: the callbacks run in the order Synchronize appended them, each once,
\* each in the first drain whose swap follows its append; once a drain is
\* over, everything appended before its swap has run.
C6_DrainInOrderOnce ==
    \A g \in Allocated :
        /\ Len(ranLog[g]) <= Len(enqLog[g])
        /\ \A i \in DOMAIN ranLog[g] :
              /\ ranLog[g][i].id = enqLog[g][i].id
              /\ ranLog[g][i].drain = enqLog[g][i].at + 1
        /\ ~Draining(g) => Len(ranLog[g]) = Cardinality(AppendedBefore(g, drains[g]))

C6_Witness ==
    \E g \in Allocated :
        /\ drains[g] = 1
        /\ ~Draining(g)
        /\ Len(enqLog[g]) = 2
        /\ Len(ranLog[g]) = 2
        /\ ranLog[g][1].id # ranLog[g][2].id

RanIn(g, id) == {ranLog[g][i].drain : i \in {j \in DOMAIN ranLog[g] : ranLog[g][j].id = id}}

\* C7: a callback appended by a running callback is appended in the drain
\* that runs its parent, runs in the next drain and in no other, and until
\* then stays in the queue or in the next drain's swapped-out sequence.
C7_ReentrantSynchronize ==
    \A g \in Allocated :
        \A i \in DOMAIN enqLog[g] :
            LET e == enqLog[g][i]
            IN e.by # 0 =>
                  /\ e.at \in RanIn(g, e.by)
                  /\ RanIn(g, e.id) \subseteq {e.at + 1}
                  /\ \/ e.id \in Ids(syncFuncs[g])
                     \/ e.id \in Swapped(g)
                     \/ RanIn(g, e.id) # {}
                  /\ (drains[g] > e.at + 1 \/ (drains[g] = e.at + 1 /\ ~Draining(g)))
                        => RanIn(g, e.id) = {e.at + 1}

C7_Witness ==
    \E g \in Allocated :
        \E i \in DOMAIN enqLog[g] :
            /\ enqLog[g][i].by # 0
            /\ enqLog[g][i].at = 1
            /\ RanIn(g, enqLog[g][i].id) = {2}

StoredFor(g, d) == {i \in DOMAIN subLog[g] : subLog[g][i].at = d - 1}
LastOf(S) == CHOOSE i \in S : \A j \in S : j <= i

\* C8: a batch handed to applyLayoutResults is the last one stored since
\* the previous swap, with the stopwatch stored with it; a drain applies at
\* most one batch and no batch is applied twice.
C8_LayoutLastWriterWins ==
    \A g \in Allocated :
        \A i \in DOMAIN appliedLog[g] :
            LET a == appliedLog[g][i]
            IN /\ StoredFor(g, a.drain) # {}
               /\ a.results = subLog[g][LastOf(StoredFor(g, a.drain))].results
               /\ a.stopwatch = subLog[g][LastOf(StoredFor(g, a.drain))].stopwatch
               /\ \A j \in DOMAIN appliedLog[g] :
                     j # i => /\ appliedLog[g][j].drain # a.drain
                              /\ appliedLog[g][j].results # a.results

C8_Witness ==
    \E g \in Allocated :
        /\ Len(appliedLog[g]) = 1
        /\ Cardinality(StoredFor(g, 1)) = 2
        /\ \A i \in StoredFor(g, 1) : Len(subLog[g][i].results) > 0
        /\ appliedLog[g][1].results = subLog[g][2].results
        /\ appliedLog[g][1].stopwatch # Nil

\* C9: g.syncMutex is free whenever RunSynchronized applies the batch or
\* invokes a callback, so that the Synchronize or SynchronizeLayout of a
\* callback, or of another goroutine during the drain, finds it free.
C9_NoLockWhileInvoking ==
    \A t \in Threads :
        \A i \in DOMAIN stack[t] :
            stack[t][i].pc \in {"rs_apply", "rs_loop"} => syncMutex[stack[t][i].g] = Nil

C9_Witness ==
    \E t \in Threads :
        /\ Len(stack[t]) = 2
        /\ stack[t][2].pc = "rs_loop"
        /\ Top(t).pc \in {"sy_append", "sl_set"}
        /\ syncMutex[Top(t).g] = Nil
        /\ \E u \in Threads :
              u # t /\ stack[u] # <<>> /\ Top(u).g = Top(t).g /\ Top(u).pc = "sy_append"

\* C10: with one call at a time, every CreateToolTip on a group returns
\* the same handle; a call that finds the tooltip returns it and leaves
\* refs - ignored and ignored as they were; ignore(1) is done by the
\* constructing call alone.
C10_ToolTipCached ==
    /\ \A g \in Allocated :
          /\ \A i \in DOMAIN ttRets[g] : ttRets[g][i] = ttRets[g][1]
          /\ ignored[g] <= 1
    /\ (last.op = "CreateToolTip" /\ ~last.err) =>
          IF last.a # Nil
          THEN /\ last.val = last.a
               /\ Liveness(last.arg) = last.b
               /\ ignored[last.arg] = last.c
          ELSE ignored[last.arg] = last.c + 1

C10_Witness ==
    /\ last.op = "CreateToolTip"
    /\ last.a # Nil
    /\ ~removed[last.arg]
    /\ Len(ttRets[last.arg]) = 2
    /\ ignored[last.arg] = 1

\* ---------------------------------------------------------------- tooltip
News(g) == {i \in DOMAIN ttLog[g] : ttLog[g][i].ev = "NewToolTip"}
Disposals(g) == {i \in DOMAIN ttLog[g] : ttLog[g][i].ev = "Dispose"}

\* C11 as claimed: NewToolTip is called at most once per group.
C11_ConstructorAtMostOnce ==
    \A g \in Allocated : Cardinality(News(g)) <= 1

\* C11 as amended: with one call at a time, NewToolTip is called only while
\* the group has no tooltip: between a successful NewToolTip and any later
\* NewToolTip the handle was disposed of, and a handle made after the
\* disposal is never stored.
C11_ConstructorOncePerToolTip ==
    \A g \in Allocated :
        \A i, j \in News(g) :
            (i < j /\ ttLog[g][i].tt # Nil) =>
                /\ \E k \in Disposals(g) :
                      i < k /\ k < j /\ ttLog[g][k].tt = ttLog[g][i].tt
                /\ toolTip[g] = Nil

C11_Witness ==
    /\ AllIdle
    /\ fatal = NoPanic
    /\ \E g \in Allocated :
          /\ Len(ttLog[g]) = 2
          /\ News(g) = {1, 2}
          /\ ttLog[g][1].tt = Nil
          /\ toolTip[g] # Nil
          /\ toolTip[g] = ttLog[g][2].tt

\* C12: with one call at a time, a CreateToolTip whose NewToolTip failed
\* returns the error and no handle, and leaves g.toolTip nil and ignored
\* and refs - ignored as they were; as long as the last NewToolTip of a
\* group failed the group has no tooltip, so the next call constructs.
C12_FailedConstruction ==
    /\ (last.op = "CreateToolTip" /\ last.err) =>
          /\ last.val = Nil
          /\ last.a = Nil
          /\ toolTip[last.arg] = Nil
          /\ ignored[last.arg] = last.c
          /\ Liveness(last.arg) = last.b
          /\ ttLog[last.arg] # <<>>
          /\ ttLog[last.arg][Len(ttLog[last.arg])] = [ev |-> "NewToolTip", tt |-> Nil]
    /\ \A g \in Allocated :
          (ttLog[g] # <<>> /\ ttLog[g][Len(ttLog[g])] = [ev |-> "NewToolTip", tt |-> Nil])
              => toolTip[g] = Nil

C12_Witness ==
    /\ last.op = "CreateToolTip"
    /\ last.err
    /\ ~removed[last.arg]
    /\ Len(ttLog[last.arg]) = 2
    /\ \A i \in DOMAIN ttLog[last.arg] : ttLog[last.arg][i].tt = Nil

\* ------------------------------------------------------- counters, removed
NegativeIgnored == "walk: negative WindowGroup ignored counter"
AddRemoved == "walk: add() called on a WindowGroup that has been removed from its manager"
IgnoreRemoved == "walk: ignore() called on a WindowGroup that has been removed from its manager"

\* C13: with one call at a time, refs is negative only in the Add that
\* stored it and ends in the panic, ignored is negative only in the ignore
\* that stored it and ends in the panic, and no call returns with a
\* negative counter.
C13_NegativeCounterIsFatal ==
    \A g \in Allocated :
        /\ refs[g] < 0 =>
              \/ fatal = NegativeRefs
              \/ \E t \in Threads : At(t, "add_test") /\ Top(t).g = g /\ Top(t).y < 0
        /\ ignored[g] < 0 =>
              \/ fatal = NegativeIgnored
              \/ \E t \in Threads : At(t, "ign_test") /\ Top(t).g = g /\ Top(t).y < 0
        /\ (AllIdle /\ fatal = NoPanic) => (refs[g] >= 0 /\ ignored[g] >= 0)

C13_Witness ==
    /\ fatal = NegativeRefs
    /\ \E g \in Allocated :
          /\ refs[g] < 0
          /\ ~removed[g]
          /\ completion[g] = "removeGroup"

\* C14: with one call at a time, removed is never cleared, no step changes
\* refs or ignored of a removed group, and no Add or ignore on a removed
\* group gets past its first test.
PastRemovedTest == {"add_load", "add_store", "add_test", "ign_load", "ign_store", "ign_test"}

C14_RemovedIsTerminal ==
    /\ [](\A t \in Threads : \A i \in DOMAIN stack[t] :
            stack[t][i].pc \in PastRemovedTest => ~removed[stack[t][i].g])
    /\ [](fatal \in {AddRemoved, IgnoreRemoved} =>
            \E t \in Threads :
                /\ stack[t] # <<>>
                /\ Top(t).pc \in {"add_check", "ign_check"}
                /\ removed[Top(t).g])
    /\ [][\A g \in GroupIds :
            removed[g] => (removed'[g] /\ refs'[g] = refs[g] /\ ignored'[g] = ignored[g])]_vars

C14_Witness ==
    /\ fatal = IgnoreRemoved
    /\ \E g \in Allocated : removed[g] /\ Len(disposeLog[g]) = 1

\* ---------------------------------------------------------- thread helpers
Frames(t) == {stack[t][i].pc : i \in DOMAIN stack[t]}

\* C15 as claimed: while Threaded is false no helper panics and none
\* touches MsgLoopMutex or pins a thread.
C15_HelpersAreNoOps ==
    ~Threaded =>
        /\ fatal # OnlyThreaded
        /\ ~MsgLoopMutex
        /\ holds = {}
        /\ \A t \in Threads : osThread[t] = 0

\* C15 as amended: while Threaded is false LockThread, UnlockThread and
\* RunUnlocked neither lock nor unlock MsgLoopMutex and end normally
\* (RunUnlocked after its block), while EnterThread and LeaveThread panic
\* at their first statement, without pinning and without the mutex.
C15_LockHelpersAreNoOps ==
    ~Threaded =>
        /\ ~MsgLoopMutex
        /\ holds = {}
        /\ \A t \in Threads :
              /\ osThread[t] = 0
              /\ Frames(t) \cap {"et_ret", "lv_unpin"} = {}
        /\ fatal \in {NoPanic, OnlyThreaded, BlockPanic}
        /\ fatal = OnlyThreaded =>
              \E t \in Threads : stack[t] # <<>> /\ Top(t).pc \in {"et_check", "lv_check"}
        /\ fatal = BlockPanic =>
              \E t \in Threads : stack[t] # <<>> /\ Top(t).pc = "ru_ret" /\ Top(t).x = "panics"
        /\ last.op \notin {"EnterThread", "LeaveThread"}

C15_Witness ==
    /\ ~Threaded
    /\ fatal = OnlyThreaded
    /\ last.op = "RunUnlocked"
    /\ calls = MaxThreadCalls
    /\ \E t \in Threads : stack[t] # <<>> /\ Top(t).pc = "lv_check"

\* C16: while Threaded is true at most one goroutine holds MsgLoopMutex,
\* the mutex is locked exactly when one does, and a goroutine whose
\* EnterThread has locked it is the only one that has entered and holds it.
Inside(t) == osThread[t] > 0 /\ t \in holds

C16_OneThreadInside ==
    Threaded =>
        /\ Cardinality(holds) <= 1
        /\ MsgLoopMutex <=> holds # {}
        /\ \A t, u \in Threads : (Inside(t) /\ Inside(u)) => t = u
        /\ \A t \in Threads :
              (stack[t] # <<>> /\ Top(t).pc = "et_ret") => holds = {t}

C16_Witness ==
    /\ Threaded
    /\ fatal = NoPanic
    /\ \E t, u \in Threads :
          /\ t # u
          /\ Idle(t)
          /\ Inside(t)
          /\ last = HelperReturned(t, "EnterThread")
          /\ Len(stack[u]) = 2
          /\ Top(u).pc = "lt_lock"
          /\ stack[u][2].pc = "et_ret"

\* C17: while Threaded is true the caller of RunUnlocked does not hold
\* MsgLoopMutex from the UnlockThread until the deferred LockThread, and
\* holds it again at the end of RunUnlocked, both where it returns and
\* where the panic of the block leaves it.
C17_RunUnlockedRelocks ==
    Threaded =>
        /\ \A t \in Threads :
              stack[t] # <<>> =>
                  /\ Top(t).pc \in {"ru_f", "ru_defer"} => t \notin holds
                  /\ (Top(t).pc = "lt_lock" /\ Len(stack[t]) = 2 /\ stack[t][2].pc = "ru_ret")
                        => t \notin holds
                  /\ Top(t).pc = "ru_ret" => t \in holds
        /\ fatal = BlockPanic =>
              \E t \in Threads :
                  /\ stack[t] # <<>>
                  /\ Top(t).pc = "ru_ret"
                  /\ Top(t).y = 1
                  /\ t \in holds
                  /\ MsgLoopMutex

C17_Witness ==
    /\ Threaded
    /\ fatal = BlockPanic
    /\ \E t \in Threads :
          /\ Inside(t)
          /\ Top(t).pc = "ru_ret"
          /\ Top(t).x = "panics"
          /\ \E u \in Threads : u # t /\ last = HelperReturned(u, "LeaveThread")

\* ------------------------------------------------------------------ drain
AppliedIn(g, d) == {i \in DOMAIN appliedLog[g] : appliedLog[g][i].drain = d}
Applying(g, d) ==
    \E t \in Threads : \E i \in DOMAIN stack[t] :
        stack[t][i].pc = "rs_apply" /\ stack[t][i].g = g /\ stack[t][i].y = d

\* C18: a batch that is applied is not empty and is applied before any
\* callback of its drain runs; a drain that is past its application has
\* applied a batch exactly if the last batch stored before its swap was
\* not empty; and the swap leaves syncFuncs, layoutResults and
\* layoutStopwatch of the group empty.
C18_BatchBeforeCallbacks ==
    /\ [](\A g \in Allocated :
            /\ \A i \in DOMAIN appliedLog[g] :
                  /\ Len(appliedLog[g][i].results) > 0
                  /\ \A j \in DOMAIN ranLog[g] :
                        ranLog[g][j].drain = appliedLog[g][i].drain
                            => j > appliedLog[g][i].before
            /\ \A d \in 1..drains[g] :
                  ~Applying(g, d) =>
                      (AppliedIn(g, d) # {}
                          <=> /\ StoredFor(g, d) # {}
                              /\ Len(subLog[g][LastOf(StoredFor(g, d))].results) > 0))
    /\ [][\A g \in GroupIds :
            drains'[g] # drains[g] =>
                /\ syncFuncs'[g] = <<>>
                /\ layoutResults'[g] = <<>>
                /\ layoutStopwatch'[g] = Nil]_vars

C18_Witness ==
    \E g \in Allocated :
        /\ ~Draining(g)
        /\ drains[g] = 1
        /\ Len(appliedLog[g]) = 1
        /\ Len(ranLog[g]) = 1
        /\ appliedLog[g][1].before = 0
        /\ syncFuncs[g] = <<>>
        /\ layoutResults[g] = <<>>
        /\ layoutStopwatch[g] = Nil

\* ---------------------------------------------------------------- dispose
LastEvent(g) == ttLog[g][Len(ttLog[g])]

\* C19: with one call at a time, g.toolTip is cleared only right after the
\* Dispose of that handle, removed is set only when g.toolTip is nil, the
\* step that sets removed goes on to removeGroup with the group's own
\* thread identifier, and no handle is disposed of twice.
C19_DisposeOrder ==
    /\ [](\A g \in Allocated :
            /\ removed[g] => toolTip[g] = Nil
            /\ Cardinality(Disposals(g)) <= 1
            /\ \A i \in Disposals(g) : ttLog[g][i].tt # Nil
            /\ \A t \in Threads : \A i \in DOMAIN stack[t] :
                  (stack[t][i].g = g /\ stack[t][i].pc \in {"rm_lock", "rm_delete"})
                      => (removed[g] /\ stack[t][i].x = threadID[g]))
    /\ [][\A g \in GroupIds :
            /\ (toolTip[g] # Nil /\ toolTip'[g] # toolTip[g]) =>
                  /\ toolTip'[g] = Nil
                  /\ ~removed'[g]
                  /\ ttLog[g] # <<>>
                  /\ LastEvent(g) = [ev |-> "Dispose", tt |-> toolTip[g]]
            /\ (~removed[g] /\ removed'[g]) =>
                  /\ toolTip[g] = Nil
                  /\ completion[g] = "removeGroup" =>
                        \E t \in Threads :
                            /\ stack'[t] # <<>>
                            /\ stack'[t][1].pc = "rm_lock"
                            /\ stack'[t][1].g = g
                            /\ stack'[t][1].x = threadID[g]
            /\ removed[g] => removed'[g]]_vars

C19_Witness ==
    /\ fatal = NoPanic
    /\ \E t \in Threads :
          /\ stack[t] # <<>>
          /\ Top(t).pc = "rm_delete"
          /\ Disposals(Top(t).g) # {}
          /\ groups[Top(t).x] = Top(t).g

\* C20: with one call at a time and a tooltip that holds one reference and
\* releases it with Done: no call returns leaving a group whose tooltip
\* holds its only reference; the Done inside dispose does not panic and
\* does not dispose again; a group disposed of with its tooltip is left
\* with refs = 0.
InToolTipDispose(t) == Len(stack[t]) >= 2 /\ stack[t][2].pc = "disp_clear"

C20_ToolTipReferenceIgnored ==
    /\ (AllIdle /\ fatal = NoPanic) =>
          \A g \in Allocated :
              /\ (toolTip[g] # Nil /\ ~removed[g]) => refs[g] # 1
              /\ (removed[g] /\ Disposals(g) # {}) => (refs[g] = 0 /\ ignored[g] = 1)
    /\ \A t \in Threads :
          InToolTipDispose(t) =>
              /\ fatal = NoPanic
              /\ Top(t).pc \in {"add_check", "add_load", "add_store", "add_test"}
              /\ ~removed[Top(t).g]
    /\ \A g \in Allocated : Len(disposeLog[g]) <= 1

C20_Witness ==
    /\ AllIdle
    /\ fatal = NoPanic
    /\ \E g \in Allocated :
          /\ completion[g] = "removeGroup"
          /\ removed[g]
          /\ Disposals(g) # {}
          /\ Len(disposeLog[g]) = 1
          /\ Len(ttRets[g]) = 1
          /\ refs[g] = 0
          /\ groups[threadID[g]] = Nil

\* ------------------------------------------------- CreateGroup against Done
Registered(g) == ~mapNil /\ groups[threadID[g]] = g

\* C21: a client calls CreateGroup(T), and then CreateGroup(T) again while
\* the Done for the first reference runs: no panic happens, and a group
\* for which some CreateGroup call returned a reference not yet released
\* is in the registry under its thread identifier, not removed, with
\* refs >= 1.
C21_CreateGroupDuringLastDone ==
    calls <= 3 =>
        /\ fatal = NoPanic
        /\ \A g \in Allocated :
              held[g] > 0 => (Registered(g) /\ ~removed[g] /\ refs[g] >= 1)

\* C22: when removeGroup, called from the dispose of group g, is about to
\* delete the entry of g's thread identifier, that entry is g's own, or
\* there is none, or the group in it is removed.
C22_RemoveGroupDeletesOwnEntry ==
    \A t \in Threads :
        (fatal = NoPanic /\ stack[t] # <<>> /\ Top(t).pc = "rm_delete") =>
            LET other == groups[Top(t).x]
            IN \/ other = Nil
               \/ other = Top(t).g
               \/ removed[other]

\* ------------------------------------------------------------------ locks
RegistryWaits == {"g_rlock", "cg_rlock", "cg_lock", "rm_lock"}

\* The goroutine is in RLock/Lock of the registry mutex, or in Lock of a
\* queue mutex.
Waiting(t) ==
    /\ stack[t] # <<>>
    /\ \/ Top(t).pc \in RegistryWaits
       \/ Top(t).pc \in LockSections /\ ~Top(t).z

HoldsRegistry(t) == wlocked = t \/ t \in rlocked

InDispose(t) ==
    \E i \in DOMAIN stack[t] :
        stack[t][i].pc \in {"disp_tt", "disp_clear", "disp_removed", "rm_lock"}

\* C23: no goroutine waits for a lock it holds itself, dispose and
\* removeGroup are entered with the registry lock not held by the caller,
\* the holder of a lock is never itself waiting for a lock, and, every
\* goroutine being scheduled again and again, each wait for the registry
\* lock or a queue lock ends (or the process has stopped in a panic).
C23_DeadlockFree ==
    /\ [](\A t \in Threads :
            /\ InDispose(t) => ~HoldsRegistry(t)
            /\ HoldsRegistry(t) => (stack[t] # <<>> /\ ~Waiting(t))
            /\ \A g \in Allocated :
                  syncMutex[g] = t => (stack[t] # <<>> /\ ~Waiting(t) /\ Top(t).g = g))
    /\ \A t \in Threads : Waiting(t) ~> (~Waiting(t) \/ fatal # NoPanic)

C23_Witness ==
    /\ fatal = NoPanic
    /\ \E t, u \in Threads :
          /\ t # u
          /\ stack[t] # <<>> /\ Top(t).pc = "rm_lock"
          /\ HoldsRegistry(u)

\* ---------------------------------------------- Synchronize against drains
FuncIds == 1..(2 * MaxDrainCalls)
Enqueued(g, id) == \E i \in DOMAIN enqLog[g] : enqLog[g][i].id = id
Ran(g, id) == \E i \in DOMAIN ranLog[g] : ranLog[g][i].id = id
Count(q, id) == Cardinality({i \in DOMAIN q : q[i].id = id})

\* The goroutines whose RunSynchronized has swapped g's queue out and is
\* still running.
Drainers(g) ==
    {t \in Threads :
        /\ stack[t] # <<>>
        /\ stack[t][Len(stack[t])].g = g
        /\ stack[t][Len(stack[t])].pc \in {"rs_apply", "rs_loop"}}

\* Where callback id of group g is: in the queue, in the hands of a drain,
\* or invoked.
Copies(g, id) ==
    Count(syncFuncs[g], id) + Count(ranLog[g], id)
        + (IF Drainers(g) = {} THEN 0
           ELSE Count(funcs[CHOOSE t \in Drainers(g) : TRUE], id))

\* C24: with goroutines calling Synchronize while the group's thread
\* drains, each appended callback is at every moment in exactly one
\* place (queued, swapped out and waiting, or invoked) and what was not
\* appended is in none; and, the group's thread calling RunSynchronized
\* again whenever something is queued, each appended callback is
\* eventually invoked.
C24_EachCallbackRunsOnce ==
    /\ [](\A g \in Allocated : \A id \in FuncIds :
            /\ Cardinality(Drainers(g)) <= 1
            /\ Copies(g, id) = (IF Enqueued(g, id) THEN 1 ELSE 0))
    /\ \A id \in FuncIds :
          (\E g \in GroupIds : Enqueued(g, id)) ~> (\E g \in GroupIds : Ran(g, id))

C24_Witness ==
    \E g \in Allocated :
        /\ Drainers(g) = {Owner}
        /\ Top(Owner).pc = "rs_loop"
        /\ funcs[Owner] # <<>>
        /\ ranLog[g] # <<>>
        /\ \E i \in DOMAIN syncFuncs[g], j \in DOMAIN enqLog[g] :
              /\ enqLog[g][j].id = syncFuncs[g][i].id
              /\ enqLog[g][j].by = 0
              /\ enqLog[g][j].at = drains[g]

====
